---- MODULE Spec2Model ----
(***************************************************************************)
(* Model of interactive_lightcurves.py: the reference table read at import *)
(* time, generate_plots (literature lookup, guarded fetch / analysis /     *)
(* drawing block, AttributeError handler) and plots (three widgets wired   *)
(* to generate_plots through interactive_output).                          *)
(*                                                                         *)
(* Units: every time, period and bin size is an integer number of          *)
(* centidays (0.01 d), so 5 d is 500 and 0.02 d is 2.  Text is a sequence  *)
(* of Unicode code points (ord), so "1" is 49, "x" is 120 and "KIC 1" is   *)
(* <<75, 73, 67, 32, 49>>.  An optional value is a sequence of length      *)
(* zero (absent / None) or one.                                            *)
(***************************************************************************)
EXTENDS Integers, Sequences, FiniteSets, TLC

\* ---------------------------------------------------------------- bounds
MaxRows == 2          \* rows of the reference table
MaxIdLen == 1         \* characters of a typed identifier
SeriesLen == 3        \* cadences of an archived observation
LongLen == 26         \* cadences of the long archived observation
MaxCommits == 2       \* committed widget changes after the initial display

\* ------------------------------------------------------ program constants
PorbLimit == 1000          \* data['Porb'] < 10 (days)
DefaultPeriod == 500       \* period_box value '5'
DefaultBin == 2            \* bin_box value '0.02'
WindowLength == 401        \* flatten(window_length=401)
NSteps == 15               \* library calls inside the try block, in order
MaxStrDigits == 4300       \* int(): most digits of a text it converts

\* ------------------------------------------------------- input alphabets
IdChars == {49, 120}       \* "1", "x"
TableKICs == {1, 2}
TablePorbs == {300, 1200}
PeriodInputs == {4, DefaultPeriod}
BinInputs == {DefaultBin, 4}
ErrorTypes == {"AttributeError", "ConnectionError"}

\* A flux value: NaN, or the rational number v / d with d > 0.
NaN == [nan |-> TRUE, v |-> 0, d |-> 1]
Ratio(x, y) == [nan |-> FALSE, v |-> x, d |-> y]
Num(x) == Ratio(x, 1)

\* Environment of the library calls: long-cadence spacing, trial periods of
\* the periodogram grid, pixel values.
Cadence == 2
PeriodGrid == {4, 6}
PixelVals == {NaN, Num(10), Num(11), Num(20)}
BackgroundPixel == Num(7)

\* Defaults of the library calls of lines 50 and 51: flatten(sigma=3,
\* niters=3), remove_outliers(sigma=5.0) and its sigma_clip(maxiters=5).
FlattenSigma == 3
FlattenIters == 3
OutlierSigma == 5
ClipIters == 5

VARIABLES
    data,         \* the table read from lurie_ebs.csv: rows [KIC, Porb]
    archive,      \* the Kepler archive: query text -> <<>> or <<tpf>>
    closeOnShow,  \* TRUE for a backend whose show() closes what it displays
    keepsNaN,     \* TRUE for a library whose flatten() keeps NaN cadences
    failures,     \* the library failures that can happen in this session
    KIC_box,      \* value of the identifier Combobox
    period_box,   \* value of the period FloatText
    bin_box,      \* value of the bin-size FloatText
    displayed,    \* "no" before plots(), then "yes" or "IndexError"
    lastRun,      \* <<>> or <<record of the latest generate_plots call>>
    prevPg,       \* <<>> or <<periodogram of the call before the latest>>
    live,         \* figures registered with pyplot and not closed
    nRuns,        \* calls of generate_plots so far
    nCommits      \* committed widget changes so far

vars == <<data, archive, closeOnShow, keepsNaN, failures, KIC_box, period_box, bin_box,
          displayed, lastRun, prevPg, live, nRuns, nCommits>>

\* --------------------------------------------------------------- helpers
SeqsUpTo(S, n) == UNION {[1..k -> S] : k \in 0..n}

RECURSIVE SumSeq(_)
SumSeq(s) == IF s = <<>> THEN 0 ELSE Head(s) + SumSeq(Tail(s))

Abs(x) == IF x < 0 THEN -x ELSE x

\* ------------------------------------------------- Python str() and int()
\* The characters int() skips around a number: str.isspace characters that
\* the conversion turns into a blank (tab, line feed, vertical tab, form
\* feed, carriage return, blank, U+0085, U+00A0, U+1680, U+2000-U+200A,
\* U+2028, U+2029, U+202F, U+205F, U+3000).
Whitespace == {9, 10, 11, 12, 13, 32, 133, 160, 5760, 8192, 8193, 8194,
               8195, 8196, 8197, 8198, 8199, 8200, 8201, 8202, 8232, 8233,
               8239, 8287, 12288}

\* The code point of digit zero in every script with decimal digits; the
\* digits 0..9 of a script are ten consecutive code points.  48 is ASCII
\* "0", 1632 Arabic-Indic, 65296 fullwidth.
DigitZeros == {48, 1632, 1776, 1984, 2406, 2534, 2662, 2790, 2918, 3046,
               3174, 3302, 3430, 3558, 3664, 3792, 3872, 4160, 4240, 6112,
               6160, 6470, 6608, 6784, 6800, 6992, 7088, 7232, 7248, 42528,
               43216, 43264, 43472, 43504, 43600, 44016, 65296, 66720,
               68912, 69734, 69872, 69942, 70096, 70384, 70736, 70864,
               71248, 71360, 71472, 71904, 72016, 72784, 73040, 73120,
               92768, 92864, 93008, 120782, 120792, 120802, 120812, 120822,
               123200, 123632, 125264, 130032}

IsDigit(c) == \E z \in DigitZeros : c \in z..(z + 9)

DigitVal(c) == c - (CHOOSE z \in DigitZeros : c \in z..(z + 9))

\* str(n) for a non-negative integer: ASCII digits
RECURSIVE PyStr(_)
PyStr(n) == IF n < 10 THEN <<48 + n>>
            ELSE PyStr(n \div 10) \o <<48 + (n % 10)>>

RECURSIVE StripLeft(_)
StripLeft(s) == IF s # <<>> /\ Head(s) \in Whitespace
                THEN StripLeft(Tail(s)) ELSE s

RECURSIVE StripRight(_)
StripRight(s) == IF s # <<>> /\ s[Len(s)] \in Whitespace
                 THEN StripRight(SubSeq(s, 1, Len(s) - 1)) ELSE s

\* Value of a digit group; the underscores (95) between digits are skipped.
RECURSIVE DigitsVal(_)
DigitsVal(s) ==
    IF s = <<>> THEN 0
    ELSE IF s[Len(s)] = 95 THEN DigitsVal(SubSeq(s, 1, Len(s) - 1))
    ELSE 10 * DigitsVal(SubSeq(s, 1, Len(s) - 1)) + DigitVal(s[Len(s)])

\* A digit group: decimal digits of any script, single underscores allowed
\* between two digits only.
WellFormed(body) ==
    /\ body # <<>>
    /\ \A i \in 1..Len(body) :
          \/ IsDigit(body[i])
          \/ /\ body[i] = 95
             /\ 1 < i /\ i < Len(body)
             /\ IsDigit(body[i - 1]) /\ IsDigit(body[i + 1])

\* The digits of a digit group, its underscores not counted.
DigitCount(body) == Cardinality({i \in 1..Len(body) : body[i] # 95})

\* int(text): surrounding whitespace is skipped, one sign "+" (43) or "-"
\* (45) is accepted, then comes a digit group of at most MaxStrDigits
\* digits; anything else is a ValueError (ok = FALSE).
PyInt(s) ==
    LET t == StripRight(StripLeft(s))
        signed == t # <<>> /\ Head(t) \in {43, 45}
        body == IF signed THEN Tail(t) ELSE t
    IN  IF ~WellFormed(body) \/ DigitCount(body) > MaxStrDigits
        THEN [ok |-> FALSE, val |-> 0]
        ELSE [ok |-> TRUE,
              val |-> IF signed /\ Head(t) = 45 THEN -DigitsVal(body)
                      ELSE DigitsVal(body)]

\* ------------------------------------------------------- reference table
\* data_short = data[data['Porb'] < 10]
data_short == SelectSeq(data, LAMBDA r : r.Porb < PorbLimit)

\* kic_list = list(map(str, data_short['KIC'].tolist()))
kic_list == [i \in 1..Len(data_short) |-> PyStr(data_short[i].KIC)]

\* KIC_ID = 'KIC ' + str(KIC)
KIC_ID(KIC) == <<75, 73, 67, 32>> \o KIC

\* p_orb = data[data['KIC'] == int(KIC)]['Porb'].values[0]
\* err is the exception the statement raises, or "none".
LookupPorb(KIC) ==
    LET n == PyInt(KIC)
        rows == SelectSeq(data, LAMBDA r : r.KIC = n.val)
    IN  IF ~n.ok THEN [err |-> "ValueError", p_orb |-> <<>>]
        ELSE IF rows = <<>> THEN [err |-> "IndexError", p_orb |-> <<>>]
        ELSE [err |-> "none", p_orb |-> <<rows[1].Porb>>]

\* ------------------------------------------- lightkurve calls (lines 49-53)
\* A target pixel file: per cadence one aperture pixel and one background
\* pixel; pipeline_mask selects the aperture pixel.
MkTpf(fluxes) ==
    [cadences |-> [i \in 1..Len(fluxes) |->
                     [time |-> (i - 1) * Cadence,
                      pixels |-> <<fluxes[i], BackgroundPixel>>]],
     pipeline_mask |-> <<TRUE, FALSE>>]

\* search_targetpixelfile(KIC_ID, author="Kepler", cadence="long").download():
\* the product for the query text, or None (<<>>) for an empty search result.
Download(query) == IF query \in DOMAIN archive THEN archive[query] ELSE <<>>

\* tpf.to_lightcurve(aperture_mask=mask): per cadence the sum of the finite
\* masked pixels, NaN when no masked pixel is finite.
ToLightcurve(tpf, mask) ==
    [i \in 1..Len(tpf.cadences) |->
        LET px == tpf.cadences[i].pixels
            used == {j \in 1..Len(px) : mask[j] /\ ~px[j].nan}
            vals == [j \in 1..Len(px) |-> IF j \in used THEN px[j].v ELSE 0]
        IN  [time |-> tpf.cadences[i].time,
             flux |-> IF used = {} THEN NaN ELSE Num(SumSeq(vals))]]

Finite(lc) == SelectSeq(lc, LAMBDA s : ~s.flux.nan)

\* The fluxes of a series share one denominator d, so the statistics below
\* are taken over the numerators v and scale with 1 / d.
Vals(lc) == [i \in 1..Len(lc) |-> lc[i].flux.v]

\* the k-th smallest of a sequence of numbers
Kth(vals, k) ==
    CHOOSE m \in {vals[i] : i \in 1..Len(vals)} :
        /\ Cardinality({i \in 1..Len(vals) : vals[i] < m}) < k
        /\ k <= Cardinality({i \in 1..Len(vals) : vals[i] <= m})

\* twice the median (the mean of the two middle values for an even count)
Median2(vals) ==
    Kth(vals, (Len(vals) + 1) \div 2) + Kth(vals, (Len(vals) \div 2) + 1)

\* n * n times the variance (population standard deviation squared)
N2Var(vals) ==
    Len(vals) * SumSeq([i \in 1..Len(vals) |-> vals[i] * vals[i]])
        - SumSeq(vals) * SumSeq(vals)

\* The samples within sigma standard deviations of the median:
\* |v - med| <= sigma * std, with med2 = 2 * med and nvar = n * n * std^2.
Within(lc, sigma, med2, nvar) ==
    SelectSeq(lc, LAMBDA s :
        Len(lc) * Len(lc) * (2 * s.flux.v - med2) * (2 * s.flux.v - med2)
            <= 4 * sigma * sigma * nvar)

ClipOnce(lc, sigma) == Within(lc, sigma, Median2(Vals(lc)), N2Var(Vals(lc)))

\* Sigma clipping about the median, repeated until nothing more is clipped
\* or iters rounds are done.
RECURSIVE Clip(_, _, _)
Clip(lc, sigma, iters) ==
    IF iters = 0 \/ ClipOnce(lc, sigma) = lc THEN lc
    ELSE Clip(ClipOnce(lc, sigma), sigma, iters - 1)

\* Twice the trend flatten() divides by.  The trend is fitted to the finite
\* samples that survive the sigma clipping; on a stretch of fewer samples
\* than the window the library does not run the Savitzky-Golay filter: the
\* trend is the median of the stretch.  Every series here is one stretch
\* (no gap of five cadences) shorter than the window.
Trend2(masked, w) ==
    CASE Len(masked) < w -> Median2(Vals(masked))

\* lc.flatten(window_length=w): every flux divided by the trend.  A NaN
\* sample stays NaN; whether it stays in the series depends on the release
\* of the library (keepsNaN).
Flattened(lc, trend2) ==
    [i \in 1..Len(lc) |->
        [time |-> lc[i].time,
         flux |-> IF lc[i].flux.nan THEN NaN
                  ELSE Ratio(2 * lc[i].flux.v, trend2)]]

Flatten(lc, w) ==
    Flattened(IF keepsNaN THEN lc ELSE Finite(lc),
              Trend2(Clip(Finite(lc), FlattenSigma, FlattenIters), w))

\* lc.remove_nans()
RemoveNans(lc) == Finite(lc)

\* lc.remove_outliers(): astropy's sigma_clip about the median with
\* sigma = 5 and at most five rounds; invalid samples are clipped too.
RemoveOutliers(lc) == Clip(Finite(lc), OutlierSigma, ClipIters)

\* stable insertion of a sample into a series sorted by time
RECURSIVE Insert(_, _)
Insert(x, s) == IF s = <<>> THEN <<x>>
                ELSE IF x.time < Head(s).time THEN <<x>> \o s
                ELSE <<Head(s)>> \o Insert(x, Tail(s))

RECURSIVE SortByTime(_)
SortByTime(s) == IF s = <<>> THEN <<>>
                 ELSE Insert(s[Len(s)], SortByTime(SubSeq(s, 1, Len(s) - 1)))

\* lc.fold(period=p): phase relative to the first sample, wrapped into
\* [-p/2, p/2), samples ordered by phase.
Fold(lc, p) ==
    IF lc = <<>> THEN <<>>
    ELSE SortByTime([i \in 1..Len(lc) |->
            [time |-> ((lc[i].time - lc[1].time + (p \div 2)) % p) - (p \div 2),
             flux |-> lc[i].flux]])

\* folded_lc.bin(time_bin_size=b): bins of width b from the first phase; a bin
\* carries the sum v / d and the count n of its samples (the plotted mean is
\* their quotient), NaN for an empty bin.
Bin(lc, b) ==
    IF lc = <<>> THEN <<>>
    ELSE LET t0 == lc[1].time
             nb == ((lc[Len(lc)].time - t0) \div b) + 1
             inbin(k) == SelectSeq(lc, LAMBDA s : (s.time - t0) \div b = k - 1)
         IN  [k \in 1..nb |->
                [time |-> t0 + (k - 1) * b,
                 flux |-> IF inbin(k) = <<>> THEN NaN
                          ELSE Ratio(SumSeq(Vals(inbin(k))), lc[1].flux.d),
                 n |-> Len(inbin(k))]]

\* LombScarglePeriodogram.from_lightcurve(series): NaN samples are dropped
\* and the fluxes centred on their mean (y = n * flux - sum, n samples);
\* each trial period P of the grid gets the power sum(S_k^2), S_k the
\* centred flux summed over phase bin k of the series folded on P, which is
\* zero for a flat folded profile; period_at_max_power is the shortest
\* trial period of maximal power.  The powers are in units of 1 / unit^2,
\* unit the denominator of the fluxes.
Periodogram(series) ==
    LET fin == Finite(series)
        total == SumSeq(Vals(fin))
        S(P, k) == SumSeq([i \in 1..Len(fin) |->
                      IF (fin[i].time % P) \div Cadence = k - 1
                      THEN Len(fin) * fin[i].flux.v - total ELSE 0])
        power == [P \in PeriodGrid |->
                    SumSeq([k \in 1..(P \div Cadence) |-> S(P, k) * S(P, k)])]
    IN  [power |-> power,
         unit |-> IF fin = <<>> THEN 1 ELSE fin[1].flux.d,
         period_at_max_power |->
             CHOOSE P \in PeriodGrid :
                 /\ \A Q \in PeriodGrid : power[Q] <= power[P]
                 /\ \A Q \in PeriodGrid : power[Q] = power[P] => P <= Q]

\* The series handed to LombScarglePeriodogram.from_lightcurve (line 53).
PgInputBinned(lc, clean, binned) ==
    [i \in 1..Len(binned) |-> [time |-> binned[i].time, flux |-> binned[i].flux]]
PgInput(lc, clean, binned) == lc

\* --------------------------------------------------- annotation text
\* f'{q:.3f}' of a quantity in days: three decimals and the unit.
Fixed3(c) ==
    PyStr(c \div 100) \o <<46>> \o PyStr((c % 100) \div 10)
        \o PyStr(c % 10) \o <<48, 32, 100>>

\* f'{p_orb} d' of a table value: str() of a float keeps the decimals it needs.
FloatStr(c) ==
    PyStr(c \div 100) \o <<46>>
        \o (IF c % 10 = 0 THEN PyStr((c % 100) \div 10)
            ELSE PyStr((c % 100) \div 10) \o PyStr(c % 10))
        \o <<32, 100>>

\* AnchoredText of lines 61-64
Annotation(pg, p_orb) ==
    << [label |-> "Period at max power", value |-> Fixed3(pg.period_at_max_power)],
       [label |-> "2 x Period at max power",
        value |-> Fixed3(pg.period_at_max_power * 2)],
       [label |-> "Period from literature", value |-> FloatStr(p_orb)] >>

\* ------------------------------------------------------------- figures
\* plt.subplots(ncols=2, nrows=2, figsize=(25,10)): four empty panels
EmptyFigure ==
    [nrows |-> 2, ncols |-> 2, artists |-> <<>>, binned |-> <<>>,
     text |-> <<>>, vlines |-> <<>>, tight |-> FALSE]

\* A figure an earlier call left registered: the model keeps how many there
\* are, not what they show.
EarlierFigure == [nrows |-> 2, ncols |-> 2, earlier |-> TRUE]

\* the drawing calls of lines 56-60, by step of the try block
DrawCalls == [s \in 6..10 |->
    CASE s = 6 -> "ax[0,0] lc.scatter"
      [] s = 7 -> "ax[0,1] folded_lc.bin.plot red"
      [] s = 8 -> "ax[0,1] folded_lc.scatter"
      [] s = 9 -> "ax[1,0] periodogram.plot"
      [] s = 10 -> "ax[1,1] periodogram.plot period log"]

\* The step of the try block that raises, and the error: the injected
\* library failure, or line 50 on None (no to_lightcurve: AttributeError).
\* Steps, in order: 1 download, 2 to_lightcurve.flatten, 3 remove_nans.
\* remove_outliers.fold, 4 periodogram, 5 subplots, 6-10 the drawing calls,
\* 11 add_artist, 12 and 13 axvline, 14 tight_layout, 15 show.
Raises(found, fault) ==
    IF fault.step = 1 THEN fault
    ELSE IF found = <<>> THEN [step |-> 2, type |-> "AttributeError"]
    ELSE fault

\* a step runs iff no earlier step raised
Done(raise, s) == raise.step = 0 \/ s < raise.step

\* The series of lines 50, 51, 57 and the one handed to the periodogram.
Analyse(tpf, period, bin_size) ==
    LET lc == Flatten(ToLightcurve(tpf, tpf.pipeline_mask), WindowLength)
        clean == RemoveOutliers(RemoveNans(lc))
        folded_lc == Fold(clean, period)
        binned == Bin(folded_lc, bin_size)
    IN  [lc |-> lc, folded_lc |-> folded_lc, binned |-> binned,
         series |-> PgInput(lc, clean, binned)]

\* The figure of line 55 as the calls of lines 56-69 that ran have drawn it.
Drawing(raise, binned, pmax, text) ==
    [nrows |-> 2, ncols |-> 2,
     artists |-> [i \in 1..Cardinality({s \in 6..10 : Done(raise, s)}) |->
                     DrawCalls[i + 5]],
     binned |-> IF Done(raise, 7) THEN binned ELSE <<>>,
     text |-> IF Done(raise, 11) THEN text ELSE <<>>,
     vlines |-> IF Done(raise, 13) THEN <<pmax, pmax * 2>>
                ELSE IF Done(raise, 12) THEN <<pmax>> ELSE <<>>,
     tight |-> Done(raise, 14)]

\* What the try block has done when it ends or raises.
Steps(raise, a, periodogram, p_orb) ==
    [err |-> IF raise.step = 0 THEN "none" ELSE raise.type,
     fetches |-> 1,
     pgInput |-> IF Done(raise, 4) THEN <<a.series>> ELSE <<>>,
     pg |-> IF Done(raise, 4) THEN <<periodogram>> ELSE <<>>,
     created |-> IF Done(raise, 5)
                 THEN <<Drawing(raise, a.binned, periodogram.period_at_max_power,
                                Annotation(periodogram, p_orb))>>
                 ELSE <<>>,
     showed |-> Done(raise, 15)]

Analysed(raise, a, p_orb) == Steps(raise, a, Periodogram(a.series), p_orb)

Fetched(found, raise, period, bin_size, p_orb) ==
    IF raise.step \in {1, 2}
    THEN [err |-> raise.type, fetches |-> 1, pgInput |-> <<>>, pg |-> <<>>,
          created |-> <<>>, showed |-> FALSE]
    ELSE Analysed(raise, Analyse(found[1], period, bin_size), p_orb)

\* The try block of lines 48-70 with the library failing at fault.step with
\* an error of fault.type (step 0: no failure).
TryBlock(found, period, bin_size, p_orb, fault) ==
    Fetched(found, Raises(found, fault), period, bin_size, p_orb)

\* The except clause of line 72.
CaughtAny(err) == err # "none"
Caught(err) == err = "AttributeError"

\* Lines 72-75 after the try block ended as t: the handler's figure on a
\* caught error, and what plt.show() displays and leaves registered.
\* plt.show() displays every registered figure, the liveBefore figures of
\* earlier calls first, and, on a closing backend, closes all of them.
Handler(t, caught, liveBefore) ==
    LET placeholder == [EmptyFigure EXCEPT !.tight = TRUE]
        figs == IF caught THEN t.created \o <<placeholder>> ELSE t.created
        showed == t.showed \/ caught
    IN  [fetches |-> t.fetches, pgInput |-> t.pgInput, pg |-> t.pg,
         created |-> figs,
         shown |-> IF showed
                   THEN [i \in 1..liveBefore |-> EarlierFigure] \o figs
                   ELSE <<>>,
         peakLive |-> liveBefore + Len(figs),
         liveAfter |-> IF showed /\ closeOnShow THEN 0
                       ELSE liveBefore + Len(figs),
         outcome |-> IF t.err = "none" THEN "Found"
                     ELSE IF caught THEN "NotFound" ELSE "Raised",
         error |-> IF t.err = "none" \/ caught THEN "none" ELSE t.err]

Guarded(t, liveBefore) == Handler(t, t.err # "none" /\ Caught(t.err), liveBefore)

\* Line 45 raised: nothing fetched, nothing drawn.
Unguarded(err, liveBefore) ==
    [fetches |-> 0, pgInput |-> <<>>, pg |-> <<>>, created |-> <<>>,
     shown |-> <<>>, peakLive |-> liveBefore, liveAfter |-> liveBefore,
     outcome |-> "Raised", error |-> err]

Body(look, found, period, bin_size, fault, liveBefore) ==
    IF look.err # "none" THEN Unguarded(look.err, liveBefore)
    ELSE Guarded(TryBlock(found, period, bin_size, look.p_orb[1], fault),
                 liveBefore)

\* generate_plots(KIC, period, bin_size), called with liveBefore figures
\* registered, the library failing as fault says.
GeneratePlots(KIC, period, bin_size, fault, liveBefore) ==
    [KIC |-> KIC, period |-> period, bin_size |-> bin_size, fault |-> fault,
     query |-> KIC_ID(KIC), p_orb |-> LookupPorb(KIC).p_orb]
    @@ Body(LookupPorb(KIC), Download(KIC_ID(KIC)), period, bin_size, fault,
            liveBefore)

\* ------------------------------------------------------ the widgets
Ids == SeqsUpTo(IdChars, MaxIdLen)

NoFault == [step |-> 0, type |-> "none"]
Faults == [step : 1..NSteps, type : ErrorTypes]

\* interactive_output(generate_plots, {'KIC': KIC_box, 'period': period_box,
\* 'bin_size': bin_box}): the keyword arguments of a call, from the widgets'
\* values k, p, b.
ControlsSwapped(k, p, b) == [KIC |-> k, period |-> b, bin_size |-> p]
Controls(k, p, b) == [KIC |-> k, period |-> p, bin_size |-> b]

\* The observer interactive_output registers on each widget's value: one call
\* of generate_plots with the widgets' current values.  A closing backend
\* flushes the figures an earlier failed call left before the call.  An
\* exception of the call is captured by the output widget.
Observed(trigger, r) ==
    /\ lastRun' = <<r @@ [trigger |-> trigger]>>
    /\ prevPg' = IF lastRun = <<>> THEN <<>> ELSE lastRun[1].pg
    /\ live' = r.liveAfter
    /\ nRuns' = nRuns + 1

Call(trigger, kw) ==
    \E fault \in {NoFault} \cup failures :
        Observed(trigger,
                 GeneratePlots(kw.KIC, kw.period, kw.bin_size, fault,
                               IF closeOnShow THEN 0 ELSE live))

Observe(trigger, k, p, b) == Call(trigger, Controls(k, p, b))

\* plots(): build the three widgets (Combobox(value=kic_list[0]) raises
\* IndexError on an empty list), wire them, display; interactive_output
\* calls the function once at once.
Display ==
    /\ displayed = "no"
    /\ IF kic_list = <<>>
       THEN /\ displayed' = "IndexError"
            /\ UNCHANGED <<KIC_box, period_box, bin_box, lastRun, prevPg,
                           live, nRuns>>
       ELSE /\ displayed' = "yes"
            /\ KIC_box' = kic_list[1]
            /\ period_box' = DefaultPeriod
            /\ bin_box' = DefaultBin
            /\ Observe("display", kic_list[1], DefaultPeriod, DefaultBin)
    /\ UNCHANGED <<data, archive, closeOnShow, keepsNaN, failures, nCommits>>

\* A committed change of the identifier field (continuous_update=False).
CommitKIC ==
    /\ displayed = "yes"
    /\ nCommits < MaxCommits
    /\ \E v \in Ids \ {KIC_box} :
          /\ KIC_box' = v
          /\ Observe("KIC", v, period_box, bin_box)
    /\ nCommits' = nCommits + 1
    /\ UNCHANGED <<data, archive, closeOnShow, keepsNaN, failures, period_box, bin_box, displayed>>

\* A committed change of the period field.
CommitPeriod ==
    /\ displayed = "yes"
    /\ nCommits < MaxCommits
    /\ \E v \in PeriodInputs \ {period_box} :
          /\ period_box' = v
          /\ Observe("period", KIC_box, v, bin_box)
    /\ nCommits' = nCommits + 1
    /\ UNCHANGED <<data, archive, closeOnShow, keepsNaN, failures, KIC_box, bin_box, displayed>>

\* A committed change of the bin-size field.
CommitBin ==
    /\ displayed = "yes"
    /\ nCommits < MaxCommits
    /\ \E v \in BinInputs \ {bin_box} :
          /\ bin_box' = v
          /\ Observe("bin_size", KIC_box, period_box, v)
    /\ nCommits' = nCommits + 1
    /\ UNCHANGED <<data, archive, closeOnShow, keepsNaN, failures, KIC_box, period_box, displayed>>

\* ------------------------------------------------------ specification
Tables == SeqsUpTo([KIC : TableKICs, Porb : TablePorbs], MaxRows)

\* a long observation: a NaN cadence, then one cadence twice as bright as
\* the others, which is more than five standard deviations off the median
LongObservation ==
    MkTpf([i \in 1..LongLen |->
             IF i = 1 THEN NaN ELSE IF i = 3 THEN Num(20) ELSE Num(10)])

\* The archived observations explored: none, every short series with at
\* least two finite cadences, the long observation.
Observations ==
    {<<>>, <<LongObservation>>}
    \cup {<<MkTpf(f)>> : f \in {g \in [1..SeriesLen -> PixelVals] :
              Cardinality({i \in 1..SeriesLen : ~g[i].nan}) >= 2}}

\* the archive may hold an observation of KIC 1 and holds none of any other
\* query text
Archives == [{KIC_ID(<<49>>)} -> Observations]

\* one table and one observation (a NaN cadence, a bright cadence) for the
\* sessions that vary something else
SampleTable == <<[KIC |-> 1, Porb |-> 300]>>
SampleObservation ==
    MkTpf([i \in 1..SeriesLen |->
             IF i = 1 THEN NaN ELSE IF i = 2 THEN Num(20) ELSE Num(10)])
SampleArchives == [{KIC_ID(<<49>>)} -> {<<>>, <<SampleObservation>>}]

Start ==
    /\ KIC_box = <<>>
    /\ period_box = 0
    /\ bin_box = 0
    /\ displayed = "no"
    /\ lastRun = <<>>
    /\ prevPg = <<>>
    /\ live = 0
    /\ nRuns = 0
    /\ nCommits = 0

\* The sessions explored.  Each varies one thing: the table, or the archived
\* observation and the release of the library, or the library failures that
\* can happen on the notebook's inline backend, which closes what it shows
\* (any failure at any call), or the one library failure that can happen on
\* a backend that keeps what it shows; a session with failures also has
\* every run without a failure.  The rest is the sample table, a sample
\* archive, no failure, a library that keeps NaN cadences and the inline
\* backend.
Init ==
    /\ \/ /\ data \in Tables /\ archive \in SampleArchives
          /\ failures = {} /\ closeOnShow = TRUE /\ keepsNaN = TRUE
       \/ /\ data = SampleTable /\ archive \in Archives
          /\ failures = {} /\ closeOnShow = TRUE /\ keepsNaN \in BOOLEAN
       \/ /\ data = SampleTable /\ archive \in SampleArchives
          /\ failures = Faults /\ closeOnShow = TRUE /\ keepsNaN = TRUE
       \/ /\ data = SampleTable /\ archive \in SampleArchives
          /\ failures \in {{f} : f \in Faults} \cup {{}}
          /\ closeOnShow = FALSE /\ keepsNaN = TRUE
    /\ Start

Next == Display \/ CommitKIC \/ CommitPeriod \/ CommitBin

Spec == Init /\ [][Next]_vars

\* ------------------------------------------------------------- claims
Ran == lastRun # <<>>
R == lastRun[1]

LookupErrors == {"ValueError", "IndexError"}

\* the identifier, read as a number, is the KIC of some row of the table
MatchesARow(KIC) ==
    \E i \in 1..Len(data) : PyInt(KIC).ok /\ PyInt(KIC).val = data[i].KIC

IsPlaceholder(fig) ==
    /\ fig.nrows = 2 /\ fig.ncols = 2
    /\ fig.artists = <<>> /\ fig.vlines = <<>>

IsComplete(fig) ==
    /\ fig.nrows = 2 /\ fig.ncols = 2
    /\ Len(fig.artists) = 5 /\ Len(fig.text) = 3 /\ Len(fig.vlines) = 2
    /\ fig.tight

\* C1: an identifier that matches no row of the reference table makes the
\* literature lookup yield "absent" without raising, and the run goes on to
\* the fetch.
C1_UnmatchedIdYieldsAbsent ==
    (Ran /\ ~MatchesARow(R.KIC)) =>
        /\ R.error \notin LookupErrors
        /\ R.p_orb = <<>>
        /\ R.fetches = 1

\* C2: a run whose query text matches no observation of the archive, with a
\* positive trial period and bin size and no library failure, ends NotFound
\* and does not raise.
C2_AbsentTargetEndsNotFound ==
    (Ran /\ R.fault = NoFault /\ Download(R.query) = <<>>
         /\ R.period > 0 /\ R.bin_size > 0) =>
        (R.outcome = "NotFound" /\ R.error = "none")

\* C3: the figure displayed on the NotFound path has four panels and carries
\* a "target not found" annotation.
C3_NotFoundFigureAnnotated ==
    (Ran /\ R.outcome = "NotFound") =>
        /\ R.shown # <<>>
        /\ LET fig == R.shown[Len(R.shown)]
           IN  /\ fig.nrows * fig.ncols = 4
               /\ \E i \in 1..Len(fig.text) :
                     fig.text[i].label = "target not found"

\* C4 (as claimed): a fetch that fails, with an error of whatever category,
\* is treated as NotFound: placeholder displayed, one fetch, nothing raised.
C4_AnyFetchFailureIsNotFound ==
    (Ran /\ R.fetches = 1 /\ R.fault.step = 1) =>
        /\ R.outcome = "NotFound"
        /\ R.error = "none"
        /\ R.shown # <<>> /\ IsPlaceholder(R.shown[Len(R.shown)])

\* C4 (amended): a fetch that fails with an AttributeError is treated as
\* NotFound (the run makes one figure, the placeholder, and displays it, the
\* fetch is not repeated, nothing is raised); a fetch that fails with an
\* error of another category is not caught: it leaves generate_plots, and no
\* figure is made.
C4_OnlyAttributeErrorIsNotFound ==
    (Ran /\ R.fetches >= 1 /\ R.fault.step = 1) =>
        /\ R.fetches = 1
        /\ R.fault.type = "AttributeError" =>
              /\ R.outcome = "NotFound" /\ R.error = "none"
              /\ Len(R.created) = 1 /\ IsPlaceholder(R.created[1])
              /\ R.shown # <<>> /\ R.shown[Len(R.shown)] = R.created[1]
        /\ R.fault.type # "AttributeError" =>
              /\ R.outcome = "Raised" /\ R.error = R.fault.type
              /\ R.created = <<>> /\ R.shown = <<>>

C4_Witness ==
    /\ Ran /\ R.fetches = 1 /\ R.fault.step = 1
    /\ R.fault.type = "AttributeError"
    /\ R.outcome = "NotFound"
    /\ Download(R.query) # <<>>
    /\ Len(R.shown) > Len(R.created)

\* C5: a run triggered by a committed change of the bin size alone (same
\* identifier and trial period as the run before it, same table and
\* archive) computes the same periodogram, powers and period at max power,
\* as the run before it.
C5_BinSizeLeavesPeriodogram ==
    (Ran /\ R.trigger = "bin_size" /\ prevPg # <<>> /\ R.pg # <<>>) =>
        R.pg = prevPg

C5_Witness ==
    /\ Ran /\ R.trigger = "bin_size" /\ prevPg # <<>>
    /\ R.outcome = "Found"
    /\ R.pg = prevPg
    /\ \E P \in PeriodGrid : R.pg[1].power[P] > 0
    /\ Len(R.created[1].binned) < Len(R.pgInput[1])

\* C6: once the widgets are displayed, every committed change has triggered
\* exactly one call of generate_plots (one more call was made at display),
\* and the latest call received the current values of all three fields.
C6_OneRunPerCommitWithCurrentValues ==
    displayed = "yes" =>
        /\ nRuns = nCommits + 1
        /\ Ran
        /\ R.KIC = KIC_box /\ R.period = period_box /\ R.bin_size = bin_box

C6_Witness ==
    /\ displayed = "yes" /\ nCommits >= 2
    /\ R.trigger = "period"
    /\ period_box # DefaultPeriod /\ bin_box # DefaultBin
    /\ R.period = period_box /\ R.bin_size = bin_box

\* C7: the figure of an earlier run is disposed of before a new one is
\* created: never more than one figure is live.
C7_AtMostOneLiveFigure ==
    /\ live <= 1
    /\ Ran => R.peakLive <= 1

\* C8: for an identifier of kic_list the literature period looked up is the
\* Porb of the first row of the filtered subset data_short with that
\* identifier.
C8_LiteratureFromFilteredSubset ==
    (Ran /\ \E i \in 1..Len(kic_list) : kic_list[i] = R.KIC) =>
        LET i == CHOOSE i \in 1..Len(kic_list) :
                    /\ kic_list[i] = R.KIC
                    /\ \A j \in 1..(i - 1) : kic_list[j] # R.KIC
        IN  R.p_orb = <<data_short[i].Porb>>

\* the detrended series of the observation a run fetched
DetrendedOf(query) ==
    Flatten(ToLightcurve(Download(query)[1], Download(query)[1].pipeline_mask),
            WindowLength)

\* C9 (as claimed): the series handed to the periodogram is the clean series,
\* the detrended series without its NaN samples and outliers.
C9_PeriodogramOfCleanSeries ==
    (Ran /\ R.pgInput # <<>>) =>
        R.pgInput[1] = RemoveOutliers(RemoveNans(DetrendedOf(R.query)))

\* C10: a run that returns normally has created and displayed exactly one
\* figure, the complete figure or the placeholder.
C10_OneWholeFigurePerRun ==
    (Ran /\ R.outcome \in {"Found", "NotFound"}) =>
        /\ Len(R.created) = 1
        /\ R.shown = R.created
        /\ IsComplete(R.created[1]) \/ IsPlaceholder(R.created[1])

====
